---- MODULE Spec2Model ----
(***************************************************************************)
(* The SEED dashboards: three Streamlit page scripts.  Every user          *)
(* interaction re-runs a page script top to bottom; the only state that    *)
(* outlives a run is the st.cache_data store behind each load_data.        *)
(*                                                                         *)
(*   page "A"  src/Home.py 63-246   corporate page, metric radio           *)
(*   page "B"  src/Home.py 249-428  corporate page, metric/state/sector    *)
(*   page "N"  src/📋Nonprofit_IRS_Dashboard.py  nonprofit page            *)
(*                                                                         *)
(* Cells of a frame are tagged tuples: <<"nan">>, <<"num", n, d>> (the     *)
(* rational n/d in lowest terms, d > 0; floating-point rounding error is   *)
(* not modelled), <<"inf", s>> and <<"str", s>>.                           *)
(***************************************************************************)
EXTENDS Integers, Sequences, FiniteSets, TLC

VARIABLES remote, cache, fetches, run, rk

vars == <<remote, cache, fetches, run, rk>>

----------------------------------------------------------------------------
(* Bounds of the model *)

MaxRows == 3

MaxFetches == 3

MaxPop == 4

MaxOrgs == 2

----------------------------------------------------------------------------
(* Cells *)

NaN == <<"nan">>

Str(s) == <<"str", s>>

Inf(s) == <<"inf", s>>

Abs(n) == IF n < 0 THEN -n ELSE n

RECURSIVE GCD(_, _)
GCD(a, b) == IF b = 0 THEN a ELSE GCD(b, a % b)

\* the rational n/d, d > 0, in lowest terms
Q(n, d) == LET g == GCD(Abs(n), d) IN <<"num", n \div g, d \div g>>

Num(n) == <<"num", n, 1>>

isna(c) == c = NaN

notna(c) == c # NaN

IsNum(c) == c[1] = "num"

\* a < b on non-null numeric cells (IEEE order, infinities included)
Lt(a, b) ==
    IF a[1] = "inf" THEN a[2] < 0 /\ b # a
    ELSE IF b[1] = "inf" THEN b[2] > 0
    ELSE a[2] * b[3] < b[2] * a[3]

\* a + b on numeric cells; NaN propagates, inf - inf is NaN
Add(a, b) ==
    IF isna(a) \/ isna(b) THEN NaN
    ELSE IF a[1] = "inf" THEN (IF b[1] = "inf" /\ b # a THEN NaN ELSE a)
    ELSE IF b[1] = "inf" THEN b
    ELSE Q(a[2] * b[3] + b[2] * a[3], a[3] * b[3])

Sign(n) == IF n < 0 THEN -1 ELSE IF n > 0 THEN 1 ELSE 0

\* a / b as numpy float64 divides: x/0 is +-inf, 0/0 is NaN, no exception
Div(a, b) ==
    IF isna(a) \/ isna(b) THEN NaN
    ELSE IF a[1] = "inf" THEN (IF b[1] = "inf" THEN NaN
                               ELSE Inf(a[2] * (IF b[2] < 0 THEN -1 ELSE 1)))
    ELSE IF b[1] = "inf" THEN Num(0)
    ELSE IF b[2] = 0 THEN (IF a[2] = 0 THEN NaN ELSE Inf(Sign(a[2])))
    ELSE Q(a[2] * b[3] * Sign(b[2]), a[3] * Abs(b[2]))

\* a * k for an integer k > 0
Times(a, k) ==
    IF isna(a) \/ a[1] = "inf" THEN a ELSE Q(a[2] * k, a[3])

\* n/d rounded to an integer, ties to even (Python's round)
RoundHalfEven(n, d) ==
    LET q == n \div d
        r == n - q * d
    IN  IF 2 * r < d THEN q
        ELSE IF 2 * r > d THEN q + 1
        ELSE IF q % 2 = 0 THEN q ELSE q + 1

\* round(x, 2) on a numpy float: NaN and inf pass through
Round2(x) ==
    IF ~IsNum(x) THEN x ELSE Q(RoundHalfEven(x[2] * 100, x[3]), 100)

\* round(x) with no digits converts to int: fails on NaN and inf
RoundRaises(x) == ~IsNum(x)

Round0(x) == Num(RoundHalfEven(x[2], x[3]))

----------------------------------------------------------------------------
(* Sequences *)

Take(s, n) == SubSeq(s, 1, IF n < Len(s) THEN n ELSE Len(s))

Range(s) == {s[i] : i \in DOMAIN s}

\* x goes after every element it is not strictly before: a stable insertion
\* into the sorted sequence t
InsertStable(x, t, Before(_, _)) ==
    LET p == Cardinality({j \in DOMAIN t : ~Before(x, t[j])})
    IN  SubSeq(t, 1, p) \o <<x>> \o SubSeq(t, p + 1, Len(t))

StableSort(s, Before(_, _)) ==
    LET F[i \in 0..Len(s)] ==
            IF i = 0 THEN <<>> ELSE InsertStable(s[i], F[i - 1], Before)
    IN  F[Len(s)]

RECURSIVE SumCells(_)
SumCells(s) ==
    IF s = <<>> THEN Num(0) ELSE Add(Head(s), SumCells(Tail(s)))

----------------------------------------------------------------------------
(* Frames: pandas DataFrames as a set of column names and a sequence of    *)
(* rows; a row maps each column, and "index" (its label), to a cell.       *)

\* pd.DataFrame(): no columns, no rows
EmptyDataFrame == [cols |-> {}, rows |-> <<>>]

Col(f, c) == [i \in DOMAIN f.rows |-> f.rows[i][c]]

\* df[mask]: the rows the mask keeps, as a new frame, labels kept
BoolIndex(f, Mask(_)) == [cols |-> f.cols, rows |-> SelectSeq(f.rows, Mask)]

\* df[c] = values, on the frame the name is bound to
SetColumn(f, c, V(_)) ==
    [cols |-> f.cols \cup {c},
     rows |-> [i \in DOMAIN f.rows |->
                 [k \in DOMAIN f.rows[i] \cup {c} |->
                     IF k = c THEN V(f.rows[i]) ELSE f.rows[i][k]]]]

\* Series.dropna()
DropNa(cells) == SelectSeq(cells, notna)

\* Series.sum(): nulls skipped, 0 over nothing
Sum(cells) == SumCells(DropNa(cells))

\* Series.nunique(): distinct non-null values
NUnique(cells) == Cardinality(Range(cells) \ {NaN})

AscendingCell(a, b) == Lt(a, b)

\* Series.median(): nulls skipped, NaN over nothing
Median(cells) ==
    LET v == StableSort(DropNa(cells), AscendingCell)
        n == Len(v)
    IN  IF n = 0 THEN NaN
        ELSE IF n % 2 = 1 THEN v[(n + 1) \div 2]
        ELSE Div(Add(v[n \div 2], v[n \div 2 + 1]), Num(2))

\* Series.mean(): nulls skipped, NaN over nothing
Mean(cells) ==
    LET v == DropNa(cells) IN Div(SumCells(v), Num(Len(v)))

\* Python's order of the strings the model uses (code points)
Collation ==
    <<"AK", "AZ", "CA", "CO", "Energy", "FL", "Finance", "GA", "Health", "Mining",
      "NY", "Retail", "TX", "Tech", "Utilities", "WA">>

\* sorted(unique non-null values of a string column)
SortedUnique(cells) ==
    LET present == {c[2] : c \in Range(cells) \ {NaN}}
        InCol(x) == x \in present
    IN  SelectSeq(Collation, InCol)

\* groupby(dim, dropna=False): the rows without a key become a group too
GroupCountSum_KeepsNullKey(f, dim, metric) ==
    LET keys == SortedUnique(Col(f, dim))
        Grp(k) == LET In(r) == r[dim] = Str(k) IN SelectSeq(f.rows, In)
        MCells(k) == [i \in DOMAIN Grp(k) |-> Grp(k)[i][metric]]
        NoKey(r) == isna(r[dim])
        rest == SelectSeq(f.rows, NoKey)
        named == [i \in DOMAIN keys |->
                     [c \in {"index", dim, "Count", metric} |->
                         IF c = "index" THEN Num(i - 1)
                         ELSE IF c = dim THEN Str(keys[i])
                         ELSE IF c = "Count" THEN Num(Len(DropNa(MCells(keys[i]))))
                         ELSE Sum(MCells(keys[i]))]]
        null == [c \in {"index", dim, "Count", metric} |->
                     IF c = "index" THEN Num(Len(keys))
                     ELSE IF c = dim THEN NaN
                     ELSE IF c = "Count" THEN Num(Len(rest))
                     ELSE Sum([i \in DOMAIN rest |-> rest[i][metric]])]
    IN  [cols |-> {dim, "Count", metric},
         rows |-> IF rest = <<>> THEN named ELSE Append(named, null)]

\* df.groupby(dim).agg({metric: ["count", "sum"]}).reset_index(), renamed
\* [dim, "Count", metric]: one row per non-null key, keys sorted
GroupCountSum(f, dim, metric) ==
    LET keys == SortedUnique(Col(f, dim))
        Grp(k) == LET In(r) == r[dim] = Str(k) IN SelectSeq(f.rows, In)
        MCells(k) == [i \in DOMAIN Grp(k) |-> Grp(k)[i][metric]]
    IN  [cols |-> {dim, "Count", metric},
         rows |-> [i \in DOMAIN keys |->
                     [c \in {"index", dim, "Count", metric} |->
                         IF c = "index" THEN Num(i - 1)
                         ELSE IF c = dim THEN Str(keys[i])
                         ELSE IF c = "Count" THEN Num(Len(DropNa(MCells(keys[i]))))
                         ELSE Sum(MCells(keys[i]))]]]

\* DataFrame.nlargest(n, col), keep="first": largest first, equal keys in
\* frame order, null keys after all others
NLargest(f, n, col) ==
    LET Has(r) == notna(r[col])
        Not(r) == isna(r[col])
        Desc(x, y) == Lt(y[col], x[col])
    IN  [cols |-> f.cols,
         rows |-> Take(StableSort(SelectSeq(f.rows, Has), Desc)
                        \o SelectSeq(f.rows, Not), n)]

\* DataFrame.nsmallest(n, col), keep="first"
NSmallest(f, n, col) ==
    LET Has(r) == notna(r[col])
        Not(r) == isna(r[col])
        Asc(x, y) == Lt(x[col], y[col])
    IN  [cols |-> f.cols,
         rows |-> Take(StableSort(SelectSeq(f.rows, Has), Asc)
                        \o SelectSeq(f.rows, Not), n)]

\* round(part.sum() / whole.sum() * 100, 2) minus the rounding
SharePct(part, whole, col) ==
    Times(Div(Sum(Col(part, col)), Sum(Col(whole, col))), 100)

----------------------------------------------------------------------------
(* A page script's names and the objects they are bound to.  heap is the   *)
(* sequence of frame objects the run created, env maps a name to the       *)
(* position of its object; an assignment into a frame changes the object,  *)
(* and so every name bound to it.                                          *)

NoObjects == [heap |-> <<>>, env |-> <<>>]

\* name = <a new frame object>
Bind(st, name, frame) ==
    [heap |-> Append(st.heap, frame),
     env  |-> [n \in DOMAIN st.env \cup {name} |->
                 IF n = name THEN Len(st.heap) + 1 ELSE st.env[n]]]

\* name = other: both names, one object
Alias(st, name, other) ==
    [heap |-> st.heap,
     env  |-> [n \in DOMAIN st.env \cup {name} |->
                 IF n = name THEN st.env[other] ELSE st.env[n]]]

Get(st, name) == st.heap[st.env[name]]

\* name[col] = values: changes the object in place
SetItem(st, name, col, V(_)) ==
    [heap |-> [st.heap EXCEPT ![st.env[name]] = SetColumn(@, col, V)],
     env  |-> st.env]

\* the frames by name, as the run leaves them
Frames(st) == [n \in DOMAIN st.env |-> st.heap[st.env[n]]]

----------------------------------------------------------------------------
(* The corporate pages, src/Home.py *)

Metrics ==
    {"Total Environmental Expenditures", "Mandated Environmental Expenditures",
     "Charitable Environmental Expenditures", "Charitable Contributions"}

SECCols == {"Name", "State", "Business Sector", "Revenues"} \cup Metrics

Methods == {"raw", "pct"}

PctCol(metric) == metric \o " % of Revenues"

MethodCol(metric, method) == IF method = "raw" THEN metric ELSE PctCol(metric)

TopN == 5

\* the filter forgotten: every row kept
MetricFilter_KeepsAll(df, metric) == df

\* df[df[actor_metric].notna()].copy()
MetricFilter(df, metric) ==
    LET Keep(r) == notna(r[metric]) IN BoolIndex(df, Keep)

\* filtered_df[filtered_df[col] == selected]
NarrowTo(f, col, selected) ==
    LET Keep(r) == r[col] = Str(selected) IN BoolIndex(f, Keep)

\* the replacement forgotten: a zero stays a zero
ReplaceZero_KeepsZero(c) == c

\* Series.replace(0, np.nan), cell by cell
ReplaceZero(c) == IF c = Num(0) THEN NaN ELSE c

\* the replacement written into the loaded frame as well as into the view
ReplaceZeroRevenues_IntoDf(st, name) ==
    LET V(r) == ReplaceZero(r["Revenues"])
    IN  SetItem(SetItem(st, name, "Revenues", V), "df", "Revenues", V)

\* name["Revenues"] = name["Revenues"].replace(0, np.nan)
ReplaceZeroRevenues(st, name) ==
    LET V(r) == ReplaceZero(r["Revenues"]) IN SetItem(st, name, "Revenues", V)

\* name[f"{metric} % of Revenues"] = name[metric] / name["Revenues"] * 100
AddPctOfRevenues(st, name, metric) ==
    LET V(r) == Times(Div(r[metric], r["Revenues"]), 100)
    IN  SetItem(st, name, PctCol(metric), V)

\* f"{x:,.0f}": NaN prints as "nan", a number rounded to an integer
Format0f(x) == IF IsNum(x) THEN Round0(x) ELSE x

compute_summary_statistics(f) ==
    [Companies |-> NUnique(Col(f, "Name")),
     BusinessSectors |-> NUnique(Col(f, "Business Sector")),
     MedianRevenues |-> Format0f(Median(Col(f, "Revenues")))]

NotRendered == [rendered |-> FALSE, error |-> ""]

\* the Geographic Insights text: two shares rounded to 2 places, then
\* nlargest(1)[...].iloc[0], which raises IndexError on an empty frame
GeographicInsights(g, metric) ==
    LET top == NLargest(g, TopN, metric)
        bottom == NSmallest(g, TopN, metric)
    IN  [rendered |-> TRUE,
         top |-> top.rows,
         bottom |-> bottom.rows,
         topShare |-> Round2(SharePct(top, g, metric)),
         bottomShare |-> Round2(SharePct(bottom, g, metric)),
         error |-> IF NLargest(g, 1, metric).rows = <<>> THEN "IndexError" ELSE ""]

\* the Sector Insights text: round(share) with no digits raises ValueError
\* on NaN before anything else of the text is built
SectorInsights(g, metric) ==
    LET top == NLargest(g, TopN, metric)
        bottom == NSmallest(g, TopN, metric)
        ts == SharePct(top, g, metric)
        bs == SharePct(bottom, g, metric)
    IN  [rendered |-> TRUE,
         top |-> top.rows,
         bottom |-> bottom.rows,
         topShare |-> IF RoundRaises(ts) THEN ts ELSE Round0(ts),
         bottomShare |-> IF RoundRaises(bs) THEN bs ELSE Round0(bs),
         error |-> IF RoundRaises(ts) \/ RoundRaises(bs) THEN "ValueError"
                   ELSE IF NLargest(g, 1, metric).rows = <<>> THEN "IndexError"
                   ELSE ""]

\* the Company Insights text: the top-5 share, then top_companies.iloc[0]
CompanyInsights(f, top, col) ==
    [rendered |-> TRUE,
     top |-> top.rows,
     topShare |-> Round2(SharePct(top, f, col)),
     error |-> IF top.rows = <<>> THEN "IndexError" ELSE ""]

\* One run of a corporate page on the loaded frame.  view is the name the
\* page gives its filtered frame (actor_df, filtered_df).
CorporatePage(page, view, loaded, metric, selected_state, selected_sector, method) ==
    LET s1 == Bind(NoObjects, "df", loaded)
        s2 == Bind(s1, view, MetricFilter(Get(s1, "df"), metric))
        s3 == IF selected_state # "All"
              THEN Bind(s2, view, NarrowTo(Get(s2, view), "State", selected_state))
              ELSE s2
        s4 == IF selected_sector # "All"
              THEN Bind(s3, view, NarrowTo(Get(s3, view), "Business Sector", selected_sector))
              ELSE s3
        s5 == ReplaceZeroRevenues(s4, view)
        stats == compute_summary_statistics(Get(s5, view))
        s6 == Bind(s5, "state_df", GroupCountSum(Get(s5, view), "State", metric))
        geo == GeographicInsights(Get(s6, "state_df"), metric)
        s7 == Bind(s6, "sector_df", GroupCountSum(Get(s6, view), "Business Sector", metric))
        sec == SectorInsights(Get(s7, "sector_df"), metric)
        s8 == AddPctOfRevenues(s7, view, metric)
        s9 == Bind(s8, "top_companies",
                   NLargest(Get(s8, view), TopN, MethodCol(metric, method)))
        com == CompanyInsights(Get(s9, view), Get(s9, "top_companies"),
                               MethodCol(metric, method))
        base == [page |-> page, view |-> view, actor_metric |-> metric,
                 selected_state |-> selected_state,
                 selected_sector |-> selected_sector, method |-> method,
                 notices |-> {}, metric_filter |-> Get(s2, view),
                 before_replace |-> Get(s4, view), stats |-> stats]
        Out(st, g, s, c, err) ==
            [k \in DOMAIN base \cup {"frames", "geo", "sector", "company", "error"} |->
                IF k = "frames" THEN Frames(st)
                ELSE IF k = "geo" THEN g
                ELSE IF k = "sector" THEN s
                ELSE IF k = "company" THEN c
                ELSE IF k = "error" THEN err
                ELSE base[k]]
    IN  IF geo.error # "" THEN Out(s6, geo, NotRendered, NotRendered, geo.error)
        ELSE IF sec.error # "" THEN Out(s7, geo, sec, NotRendered, sec.error)
        ELSE Out(s9, geo, sec, com, com.error)

\* src/Home.py 121-236
PageARun(loaded, metric, method) ==
    CorporatePage("A", "actor_df", loaded, metric, "All", "All", method)

\* src/Home.py 289-428
PageBRun(loaded, metric, selected_state, selected_sector, method) ==
    CorporatePage("B", "filtered_df", loaded, metric, selected_state,
                  selected_sector, method)

\* the run of a corporate page whose load_data() raised: the script stops
\* at line 90 / 272 and Streamlit shows the exception
LoadRaised(page) ==
    [page |-> page, error |-> "LoadError", notices |-> {}, frames |-> <<>>]

----------------------------------------------------------------------------
(* The nonprofit page, src/📋Nonprofit_IRS_Dashboard.py.  Text that the    *)
(* page takes apart (NTEE codes, EINs as text) is a sequence of one-       *)
(* character strings.                                                      *)

BMFCols == {"EIN", "NTEE_CD", "STATE", "REVENUE_AMT"}

F990Cols == {"ein", "totassetsend", "totrevenue", "totfuncexpns", "payrolltx"}

NumericCols == <<"totassetsend", "totrevenue", "totfuncexpns", "payrolltx">>

Sizes == {"All", "Small (<$1M)", "Medium ($1M-$10M)", "Large (>$10M)"}

SmallBelow == 1000000

LargeAbove == 10000000

HeadN == 10

Digit(d) == <<"0", "1", "2", "3", "4", "5", "6", "7", "8", "9">>[d + 1]

\* str(n) for an integer n >= 0
RECURSIVE Digits(_)
Digits(n) == IF n < 10 THEN <<Digit(n)>> ELSE Digits(n \div 10) \o <<Digit(n % 10)>>

\* the dtype read_csv gives a column: text anywhere makes it object, else a
\* missing value makes it float64, else the whole numbers are int64
DType(cells) ==
    IF \E i \in DOMAIN cells : cells[i][1] = "str" THEN "object"
    ELSE IF \E i \in DOMAIN cells : isna(cells[i]) THEN "float64"
    ELSE "int64"

\* Series.astype(str) of a column of that dtype, cell by cell: an int64
\* prints as its digits, a float64 with ".0" after them, a null as "nan"
AsStr(dtype, c) ==
    IF c = NaN THEN Str(<<"n", "a", "n">>)
    ELSE IF c[1] = "num"
         THEN Str(Digits(c[2]) \o (IF dtype = "float64" THEN <<".", "0">> ELSE <<>>))
    ELSE c

\* pd.to_numeric(errors="coerce"), cell by cell: text that is no number
\* becomes NaN
DigitValue(ch) ==
    IF \E d \in 0..9 : Digit(d) = ch THEN CHOOSE d \in 0..9 : Digit(d) = ch ELSE -1

RECURSIVE ParseDigits(_, _)
ParseDigits(t, acc) ==
    IF t = <<>> THEN acc
    ELSE IF DigitValue(Head(t)) < 0 THEN -1
    ELSE ParseDigits(Tail(t), acc * 10 + DigitValue(Head(t)))

ToNumeric(c) ==
    IF c[1] # "str" THEN c
    ELSE IF c[2] = <<>> \/ ParseDigits(c[2], 0) < 0 THEN NaN
    ELSE Num(ParseDigits(c[2], 0))

\* [f"C{i}" for i in range(30, 61)]
env_ntee_codes == {<<"C">> \o Digits(i) : i \in 30..60}

\* str.startswith(tuple(prefixes), na=False)
StartsWithAny(text, prefixes) ==
    \E pre \in prefixes : Len(text) >= Len(pre) /\ SubSeq(text, 1, Len(pre)) = pre

\* df_bmf[df_bmf["NTEE_CD"].astype(str).str.startswith(codes, na=False)]
EnvBmf(df_bmf) ==
    LET dtype == DType(Col(df_bmf, "NTEE_CD"))
        Keep(r) == StartsWithAny(AsStr(dtype, r["NTEE_CD"])[2], env_ntee_codes)
    IN  BoolIndex(df_bmf, Keep)

\* set(df_env_bmf["EIN"].astype(str)); dtype is the EIN column's, which
\* df_env_bmf has from df_bmf
EnvEins(df_env_bmf, dtype) == {AsStr(dtype, r["EIN"]) : r \in Range(df_env_bmf.rows)}

\* df_990[df_990["ein"].astype(str).isin(env_eins)]
Env990(df_990, env_eins) ==
    LET dtype == DType(Col(df_990, "ein"))
        Keep(r) == AsStr(dtype, r["ein"]) \in env_eins
    IN  BoolIndex(df_990, Keep)

\* for col in [...]: df_env_990[col] = pd.to_numeric(df_env_990[col], errors="coerce")
RECURSIVE CoerceNumeric(_, _, _)
CoerceNumeric(st, name, columns) ==
    IF columns = <<>> THEN st
    ELSE LET c == Head(columns)
             V(r) == ToNumeric(r[c])
         IN  CoerceNumeric(SetItem(st, name, c, V), name, Tail(columns))

\* the Medium bucket with its two thresholds left out of it
SizeBucket_StrictMedium(f, size) ==
    LET Small(r) == notna(r["totassetsend"]) /\ Lt(r["totassetsend"], Num(SmallBelow))
        Medium(r) == /\ notna(r["totassetsend"])
                     /\ Lt(Num(SmallBelow), r["totassetsend"])
                     /\ Lt(r["totassetsend"], Num(LargeAbove))
        Large(r) == notna(r["totassetsend"]) /\ Lt(Num(LargeAbove), r["totassetsend"])
    IN  IF size = "Small (<$1M)" THEN BoolIndex(f, Small)
        ELSE IF size = "Medium ($1M-$10M)" THEN BoolIndex(f, Medium)
        ELSE IF size = "Large (>$10M)" THEN BoolIndex(f, Large)
        ELSE f

\* the size bucket of lines 73-78 and 155-160; a null compares False
SizeBucket(f, size) ==
    LET Small(r) == notna(r["totassetsend"]) /\ Lt(r["totassetsend"], Num(SmallBelow))
        Medium(r) == /\ notna(r["totassetsend"])
                     /\ ~Lt(r["totassetsend"], Num(SmallBelow))
                     /\ ~Lt(Num(LargeAbove), r["totassetsend"])
        Large(r) == notna(r["totassetsend"]) /\ Lt(Num(LargeAbove), r["totassetsend"])
    IN  IF size = "Small (<$1M)" THEN BoolIndex(f, Small)
        ELSE IF size = "Medium ($1M-$10M)" THEN BoolIndex(f, Medium)
        ELSE IF size = "Large (>$10M)" THEN BoolIndex(f, Large)
        ELSE f

\* df_filtered[df_filtered["ein"].isin(
\*     df_env_bmf[df_env_bmf["STATE"].isin(state_filter)]["EIN"].astype(str))]
\* the 990 side is compared as it is, the master-file side as text (dtype is
\* the master file's EIN column's): isin finds a number equal to no text
StateNarrow(f, df_env_bmf, state_filter, dtype) ==
    LET InStates(r) == r["STATE"] # NaN /\ r["STATE"][2] \in state_filter
        eins == {AsStr(dtype, r["EIN"]) :
                    r \in Range(BoolIndex(df_env_bmf, InStates).rows)}
        Keep(r) == r["ein"] \in eins
    IN  BoolIndex(f, Keep)

\* x.mean() if not x.isna().all() else 0
MeanOrZero(cells) ==
    IF \A i \in DOMAIN cells : isna(cells[i]) THEN Num(0) ELSE Mean(cells)

compute_summary_stats(df) ==
    [TotalNonprofits |-> Len(df.rows),
     AverageAssets |-> Format0f(MeanOrZero(Col(df, "totassetsend"))),
     AverageRevenue |-> Format0f(MeanOrZero(Col(df, "totrevenue"))),
     AverageExpenses |-> Format0f(MeanOrZero(Col(df, "totfuncexpns")))]

\* df_env_bmf[mask].groupby("STATE")["REVENUE_AMT"].sum().reset_index(),
\* renamed ["State", "Total Revenue"]
StateFunding(df_env_bmf, state_filter) ==
    LET Keep(r) == IF state_filter # {}
                   THEN r["STATE"] # NaN /\ r["STATE"][2] \in state_filter
                   ELSE notna(r["STATE"])
        g == BoolIndex(df_env_bmf, Keep)
        keys == SortedUnique(Col(g, "STATE"))
        Amounts(k) == LET In(r) == r["STATE"] = Str(k)
                          rows == SelectSeq(g.rows, In)
                      IN  [i \in DOMAIN rows |-> rows[i]["REVENUE_AMT"]]
    IN  [cols |-> {"State", "Total Revenue"},
         rows |-> [i \in DOMAIN keys |->
                     [c \in {"index", "State", "Total Revenue"} |->
                         IF c = "index" THEN Num(i - 1)
                         ELSE IF c = "State" THEN Str(keys[i])
                         ELSE Sum(Amounts(keys[i]))]]]

\* The orders DataFrame.sort_values(col, ascending=False) may return: the
\* default kind is quicksort, which is not stable, so rows with equal keys
\* come out in any order; nulls last.
SortValuesDescending(f, col) ==
    LET n == Len(f.rows)
        perms == {p \in [1..n -> 1..n] : \A i, j \in 1..n : i # j => p[i] # p[j]}
        Ordered(p) == \A i \in 1..n : \A j \in 1..n :
                         i < j => /\ (isna(f.rows[p[i]][col]) => isna(f.rows[p[j]][col]))
                                  /\ (notna(f.rows[p[i]][col]) /\ notna(f.rows[p[j]][col])
                                        => ~Lt(f.rows[p[i]][col], f.rows[p[j]][col]))
    IN  {[cols |-> f.cols, rows |-> [i \in 1..n |-> f.rows[p[i]]]] :
            p \in {q \in perms : Ordered(q)}}

\* DataFrame.head(n)
HeadRows(f, n) == [cols |-> f.cols, rows |-> Take(f.rows, n)]

\* lines 131-146: the share of program expenses, 0 when nothing was spent
ProgramPct(df_filtered) ==
    LET a == Sum(Col(df_filtered, "totfuncexpns"))
        b == Sum(Col(df_filtered, "payrolltx"))
    IN  IF Lt(Num(0), Add(a, b)) THEN Times(Div(a, Add(a, b)), 100) ELSE Num(0)

\* One run of the nonprofit page on the two loaded frames; sorted_funding is
\* the order sort_values gave state_funding.  A frame without the column
\* the page reads (pd.DataFrame() after a failed load) raises KeyError.
NonprofitPage(bmf, f990, messages, nonprofit_size, state_filter, sorted_funding) ==
    LET s1 == Bind(Bind(NoObjects, "df_bmf", bmf), "df_990", f990)
        s2 == Bind(s1, "df_env_bmf", EnvBmf(Get(s1, "df_bmf")))
        ein_dtype == DType(Col(Get(s1, "df_bmf"), "EIN"))
        env_eins == EnvEins(Get(s2, "df_env_bmf"), ein_dtype)
        s3 == Bind(s2, "df_env_990", Env990(Get(s2, "df_990"), env_eins))
        s4 == CoerceNumeric(s3, "df_env_990", NumericCols)
        s5 == IF nonprofit_size = "All"
              THEN Alias(s4, "df_filtered", "df_env_990")
              ELSE Bind(s4, "df_filtered", SizeBucket(Get(s4, "df_env_990"), nonprofit_size))
        s6 == IF state_filter # {}
              THEN Bind(s5, "df_filtered",
                        StateNarrow(Get(s5, "df_filtered"), Get(s5, "df_env_bmf"),
                                    state_filter, ein_dtype))
              ELSE s5
        s7 == Bind(s6, "state_funding", StateFunding(Get(s6, "df_env_bmf"), state_filter))
        s8 == Bind(s7, "top_states", HeadRows(sorted_funding, HeadN))
        base == [page |-> "N", notices |-> messages,
                 nonprofit_size |-> nonprofit_size, state_filter |-> state_filter]
        Out(st, err, more) ==
            [k \in DOMAIN base \cup DOMAIN more \cup {"frames", "error"} |->
                IF k = "frames" THEN Frames(st)
                ELSE IF k = "error" THEN err
                ELSE IF k \in DOMAIN more THEN more[k]
                ELSE base[k]]
    IN  IF "NTEE_CD" \notin bmf.cols THEN Out(s1, "KeyError", <<>>)
        ELSE IF "ein" \notin f990.cols THEN Out(s2, "KeyError", <<>>)
        ELSE Out(s8, "",
                 [env_eins |-> env_eins,
                  size_filtered |-> Get(s5, "df_filtered"),
                  stats |-> compute_summary_stats(Get(s6, "df_filtered")),
                  program_pct |-> ProgramPct(Get(s6, "df_filtered")),
                  buckets |-> [z \in Sizes \ {"All"} |->
                                 SizeBucket(Get(s4, "df_env_990"), z)]])

\* sorted(df_env_bmf["STATE"].dropna().unique()): what the multiselect offers
StateOptions(bmf) ==
    IF "NTEE_CD" \notin bmf.cols THEN {}
    ELSE {r["STATE"][2] : r \in {x \in Range(EnvBmf(bmf).rows) : notna(x["STATE"])}}

\* the runs the page can make of these inputs, one per order sort_values
\* may return
NonprofitRuns(bmf, f990, messages, nonprofit_size, state_filter) ==
    IF "NTEE_CD" \notin bmf.cols \/ "ein" \notin f990.cols
    THEN {NonprofitPage(bmf, f990, messages, nonprofit_size, state_filter, EmptyDataFrame)}
    ELSE {NonprofitPage(bmf, f990, messages, nonprofit_size, state_filter, srt) :
            srt \in SortValuesDescending(StateFunding(EnvBmf(bmf), state_filter),
                                         "Total Revenue")}

----------------------------------------------------------------------------
(* The loaders.  st.cache_data keeps one store per decorated function,     *)
(* keyed by the call's arguments: a call that returns stores its value     *)
(* (and the st elements it showed), a call that raises stores nothing, and *)
(* a hit hands out a copy of the stored value.                             *)

Keys == {"A", "B", "EOBMF", "Form990"}

Sources == {"SEC", "EOBMF", "Form990"}

\* file_paths / the URL each load_data reads
SourceOf(key) == IF key \in {"A", "B"} THEN "SEC" ELSE key

usecols == [EOBMF |-> BMFCols, Form990 |-> F990Cols]

Absent == [present |-> FALSE, value |-> EmptyDataFrame, messages |-> {}]

Stored(value, messages) == [present |-> TRUE, value |-> value, messages |-> messages]

\* pd.read_csv(filepath, usecols=cols) of a file that arrived.  A file cell
\* is the token as it would parse alone; in a column that holds text
\* anywhere every number stays the text of its digits.
ReadCsv(file, columns) ==
    LET Cell(k, c) ==
            IF /\ k # "index"
               /\ c[1] = "num"
               /\ DType(Col(file, k)) = "object"
            THEN Str(Digits(c[2])) ELSE c
    IN  [cols |-> columns,
         rows |-> [i \in DOMAIN file.rows |->
                     [k \in columns \cup {"index"} |-> Cell(k, file.rows[i][k])]]]

\* the store never consulted: every call fetches
CorporateLoad_AlwaysFetches(c, n, files, key, ok) ==
    IF ok
    THEN [raised |-> FALSE, value |-> files[SourceOf(key)], messages |-> {},
          cache |-> [c EXCEPT ![key] = Stored(files[SourceOf(key)], {})],
          fetches |-> [n EXCEPT ![key] = @ + 1], hits |-> {}, failed |-> {}]
    ELSE [raised |-> TRUE, value |-> EmptyDataFrame, messages |-> {},
          cache |-> c, fetches |-> [n EXCEPT ![key] = @ + 1],
          hits |-> {}, failed |-> {key}]

\* load_data() of a corporate page: no try, the fetch's exception leaves
\* load_data and nothing is stored
CorporateLoad(c, n, files, key, ok) ==
    IF c[key].present
    THEN [raised |-> FALSE, value |-> c[key].value, messages |-> c[key].messages,
          cache |-> c, fetches |-> n, hits |-> {key}, failed |-> {}]
    ELSE IF ok
    THEN [raised |-> FALSE, value |-> files[SourceOf(key)], messages |-> {},
          cache |-> [c EXCEPT ![key] = Stored(files[SourceOf(key)], {})],
          fetches |-> [n EXCEPT ![key] = @ + 1], hits |-> {}, failed |-> {}]
    ELSE [raised |-> TRUE, value |-> EmptyDataFrame, messages |-> {},
          cache |-> c, fetches |-> [n EXCEPT ![key] = @ + 1],
          hits |-> {}, failed |-> {key}]

\* load_data(filepath, usecols) of the nonprofit page: the except branch
\* shows st.error and returns pd.DataFrame(), which is what gets stored
NonprofitLoad(c, n, files, key, ok) ==
    IF c[key].present
    THEN [raised |-> FALSE, value |-> c[key].value, messages |-> c[key].messages,
          cache |-> c, fetches |-> n, hits |-> {key}, failed |-> {}]
    ELSE IF ok /\ usecols[key] \subseteq files[SourceOf(key)].cols
    THEN [raised |-> FALSE, value |-> ReadCsv(files[SourceOf(key)], usecols[key]),
          messages |-> {},
          cache |-> [c EXCEPT ![key] = Stored(ReadCsv(files[SourceOf(key)], usecols[key]), {})],
          fetches |-> [n EXCEPT ![key] = @ + 1], hits |-> {}, failed |-> {}]
    ELSE [raised |-> FALSE, value |-> EmptyDataFrame,
          messages |-> {"Error loading data: " \o key},
          cache |-> [c EXCEPT ![key] = Stored(EmptyDataFrame, {"Error loading data: " \o key})],
          fetches |-> [n EXCEPT ![key] = @ + 1], hits |-> {}, failed |-> {key}]

\* a call is a hit, or a fetch the model's cap still allows; the outcome of
\* a fetch is an input, and a hit has none
MayLoad(c, n, key, ok) ==
    IF c[key].present THEN ok
    ELSE n["A"] + n["B"] + n["EOBMF"] + n["Form990"] < MaxFetches

----------------------------------------------------------------------------
(* Page runs *)

NoRun ==
    [page |-> "none", error |-> "", notices |-> {}, frames |-> <<>>,
     hits |-> {}, fetch_failed |-> {}]

\* a run record with the keys its loads found stored and the keys whose
\* fetch failed
Loaded(r, L) ==
    [k \in DOMAIN r \cup {"hits", "fetch_failed"} |->
        IF k = "hits" THEN L.hits
        ELSE IF k = "fetch_failed" THEN L.failed
        ELSE r[k]]

StatesOf(df) == Range(SortedUnique(Col(df, "State")))

SectorsOf(df) == Range(SortedUnique(Col(df, "Business Sector")))

PageA ==
    \E ok \in BOOLEAN, metric \in Metrics, method \in Methods :
        LET L == CorporateLoad(cache, fetches, remote, "A", ok)
        IN  /\ MayLoad(cache, fetches, "A", ok)
            /\ cache' = L.cache
            /\ fetches' = L.fetches
            /\ run' = Loaded(IF L.raised THEN LoadRaised("A")
                             ELSE PageARun(L.value, metric, method), L)
            /\ UNCHANGED <<remote, rk>>

PageB ==
    \E ok \in BOOLEAN, metric \in Metrics, method \in Methods :
        LET L == CorporateLoad(cache, fetches, remote, "B", ok)
        IN  /\ MayLoad(cache, fetches, "B", ok)
            /\ cache' = L.cache
            /\ fetches' = L.fetches
            /\ IF L.raised
               THEN run' = Loaded(LoadRaised("B"), L)
               ELSE \E selected_state \in {"All"} \cup StatesOf(L.value),
                       selected_sector \in {"All"} \cup SectorsOf(L.value) :
                        run' = Loaded(PageBRun(L.value, metric, selected_state,
                                               selected_sector, method), L)
            /\ UNCHANGED <<remote, rk>>

PageN ==
    \E ok1 \in BOOLEAN, ok2 \in BOOLEAN, nonprofit_size \in Sizes :
        LET L1 == NonprofitLoad(cache, fetches, remote, "EOBMF", ok1)
            L2 == NonprofitLoad(L1.cache, L1.fetches, remote, "Form990", ok2)
            L == [hits |-> L1.hits \cup L2.hits, failed |-> L1.failed \cup L2.failed]
        IN  /\ MayLoad(cache, fetches, "EOBMF", ok1)
            /\ MayLoad(L1.cache, L1.fetches, "Form990", ok2)
            /\ cache' = L2.cache
            /\ fetches' = L2.fetches
            /\ \E state_filter \in SUBSET StateOptions(L1.value) :
                  \E r \in NonprofitRuns(L1.value, L2.value,
                                         L1.messages \cup L2.messages,
                                         nonprofit_size, state_filter) :
                      run' = Loaded(r, L)
            /\ UNCHANGED <<remote, rk>>

----------------------------------------------------------------------------
(* The published files the model draws its inputs from *)

SECRow(i, name, state, sector, tot, man, che, con, rev) ==
    [k \in SECCols \cup {"index"} |->
        IF k = "index" THEN Num(i)
        ELSE IF k = "Name" THEN Str(name)
        ELSE IF k = "State" THEN state
        ELSE IF k = "Business Sector" THEN sector
        ELSE IF k = "Total Environmental Expenditures" THEN tot
        ELSE IF k = "Mandated Environmental Expenditures" THEN man
        ELSE IF k = "Charitable Environmental Expenditures" THEN che
        ELSE IF k = "Charitable Contributions" THEN con
        ELSE rev]

NameAt(i) == <<"Acme", "Bolt", "Core", "Dyna", "Echo", "Flux", "Gyro", "Helm">>[i]

StateAt(i) == <<"CA", "TX", "NY", "WA", "FL", "AK", "GA", "AZ">>[i]

SectorAt(i) ==
    <<"Energy", "Tech", "Retail", "Finance", "Health", "Mining", "Utilities", "Energy">>[i]

\* the frames of at most n rows whose i-th row is Row(i, d) for some d of dom
FramesOf(columns, n, dom, Row(_, _)) ==
    UNION {{[cols |-> columns, rows |-> [i \in 1..m |-> Row(i, pick[i])]] :
               pick \in [1..m -> dom]} : m \in 0..n}

\* metric and revenue cells vary; every company in one state and sector.  A
\* row without the metric has a zero revenue, a row with a zero metric has a
\* zero or a positive one, a row with a positive metric any of the three.
FilterFiles ==
    LET Row(i, d) == SECRow(i - 1, NameAt(i), Str("CA"), Str("Energy"),
                            d.tot, NaN, NaN, Num(1), d.rev)
    IN  FramesOf(SECCols, MaxRows,
                 {d \in [tot : {NaN, Num(0), Num(3)}, rev : {NaN, Num(0), Num(2)}] :
                     /\ d.tot = NaN => d.rev = Num(0)
                     /\ d.tot = Num(0) => d.rev # NaN}, Row)

\* the sector a company of the state is in, so that the rows without a
\* sector are not the rows without a state
SectorIn(state) ==
    IF state = NaN THEN Str("Energy") ELSE IF state = Str("CA") THEN Str("Tech") ELSE NaN

\* state, sector and metric cells vary; a row without the metric is in CA
GroupFiles ==
    LET Row(i, d) == SECRow(i - 1, NameAt(i), d.state, SectorIn(d.state),
                            d.tot, NaN, NaN, NaN, Num(4))
    IN  FramesOf(SECCols, MaxRows,
                 {d \in [state : {NaN, Str("CA"), Str("TX")}, tot : {NaN, Num(1), Num(2)}] :
                     d.tot = NaN => d.state = Str("CA")}, Row)

BMFRow(i, ein, ntee, state, amt) ==
    [k \in BMFCols \cup {"index", "NAME"} |->
        IF k = "index" THEN Num(i)
        ELSE IF k = "NAME" THEN Str(NameAt(i + 1))
        ELSE IF k = "EIN" THEN ein
        ELSE IF k = "NTEE_CD" THEN ntee
        ELSE IF k = "STATE" THEN state
        ELSE amt]

F990Row(i, ein, assets, revenue, expenses, payroll) ==
    [k \in F990Cols \cup {"index", "tax_pd"} |->
        IF k = "index" THEN Num(i)
        ELSE IF k = "tax_pd" THEN Num(202312)
        ELSE IF k = "ein" THEN ein
        ELSE IF k = "totassetsend" THEN assets
        ELSE IF k = "totrevenue" THEN revenue
        ELSE IF k = "totfuncexpns" THEN expenses
        ELSE payroll]

C30 == Str(<<"C", "3", "0">>)

B20 == Str(<<"B", "2", "0">>)

NotANumber == Str(<<"T", "B", "D">>)

\* the files the process-level specification runs on
BaseSEC ==
    {[cols |-> SECCols,
      rows |-> <<SECRow(0, "Acme", Str("CA"), Str("Energy"), Num(3), NaN, NaN, Num(1), Num(0)),
                 SECRow(1, "Bolt", NaN, NaN, Num(1), NaN, NaN, NaN, Num(2))>>]}

BaseBMF ==
    {[cols |-> BMFCols \cup {"NAME"},
      rows |-> <<BMFRow(0, Num(1), C30, Str("CA"), Num(5)),
                 BMFRow(1, Num(2), B20, Str("TX"), Num(5))>>]}

Base990 ==
    {[cols |-> F990Cols \cup {"tax_pd"},
      rows |-> <<F990Row(0, Num(1), NotANumber, Num(7), Num(3), Num(1)),
                 F990Row(1, Num(2), Num(LargeAbove), Num(9), Num(0), Num(0))>>]}

NoRank == [op |-> "none"]

InitWith(sec, bmf, f990) ==
    /\ remote \in [SEC : sec, EOBMF : bmf, Form990 : f990]
    /\ cache = [k \in Keys |-> Absent]
    /\ fetches = [k \in Keys |-> 0]
    /\ run = NoRun
    /\ rk = NoRank

Init == InitWith(BaseSEC, BaseBMF, Base990)

Next == PageA \/ PageB \/ PageN

\* a process that serves page runs one after the other
Spec == Init /\ [][Next]_vars

InitFilter == InitWith(FilterFiles, BaseBMF, Base990)

InitGroup == InitWith(GroupFiles, BaseBMF, Base990)

\* the first run of a corporate page in a fresh process
Render ==
    /\ run.page = "none"
    /\ (PageA \/ PageB)

\* one render of a corporate page, over the files whose metric and revenue
\* cells vary
SpecFilter == InitFilter /\ [][Render]_vars

\* one render of a corporate page, over the files whose state, sector and
\* metric cells vary
SpecGroup == InitGroup /\ [][Render]_vars

\* the first run of the nonprofit page in a fresh process
RenderN ==
    /\ run.page = "none"
    /\ PageN

\* a master file of environmental organizations, one per Form 990 row
SizeBMF ==
    [cols |-> BMFCols \cup {"NAME"},
     rows |-> [i \in 1..MaxRows |-> BMFRow(i - 1, Num(i), C30, Str("CA"), Num(i))]]

\* the total assets a Form 990 row may report: none, text, and the values
\* at and next to the two thresholds
AssetValues ==
    {NaN, NotANumber, Num(SmallBelow - 1), Num(SmallBelow), Num(LargeAbove),
     Num(LargeAbove + 1)}

\* Form 990 files whose total assets vary
Size990Files ==
    LET Row(i, d) == F990Row(i - 1, Num(i), d, Num(7), Num(3), Num(1))
    IN  FramesOf(F990Cols \cup {"tax_pd"}, MaxRows, AssetValues, Row)

InitSize == InitWith(BaseSEC, {SizeBMF}, Size990Files)

\* one render of the nonprofit page, over the Form 990 files whose total
\* assets vary
SpecSize == InitSize /\ [][RenderN]_vars

\* the state an organization with this EIN is in
StateOfEin(ein) == IF ein = Num(2) THEN Str("TX") ELSE Str("CA")

\* master files of at most MaxOrgs organizations: the NTEE code is missing,
\* environmental or not, the EIN is missing or one of two
XrefBMFFiles ==
    LET Row(i, d) == BMFRow(i - 1, d.ein, d.ntee, StateOfEin(d.ein), Num(i))
    IN  FramesOf(BMFCols \cup {"NAME"}, MaxOrgs,
                 [ntee : {NaN, C30, B20}, ein : {NaN, Num(1), Num(2)}], Row)

NotAnEin == Str(<<"x">>)

\* Form 990 files of at most MaxOrgs returns: the EIN is missing, one of
\* the two, or text; the first return is of Medium size, the others Small
Xref990Files ==
    LET Row(i, d) == F990Row(i - 1, d, IF i = 1 THEN Num(SmallBelow) ELSE Num(5),
                             Num(7), Num(3), Num(1))
    IN  FramesOf(F990Cols \cup {"tax_pd"}, MaxOrgs, {NaN, Num(1), Num(2), NotAnEin}, Row)

InitXref == InitWith(BaseSEC, XrefBMFFiles, Xref990Files)

\* one render of the nonprofit page, over the master files and Form 990
\* files whose NTEE codes and EINs vary
SpecXref == InitXref /\ [][RenderN]_vars

----------------------------------------------------------------------------
(* The rankers on their own: nlargest / nsmallest of src/Home.py and the   *)
(* sort_values(...).head(n) of the nonprofit page, each applied to a       *)
(* population and then to its own result.                                  *)

\* populations of at most MaxPop items, one per state, null keys included
Populations ==
    LET Row(i, d) == [c \in {"index", "State", "key"} |->
                         IF c = "index" THEN Num(i - 1)
                         ELSE IF c = "State" THEN Str(StateAt(i))
                         ELSE d]
    IN  FramesOf({"State", "key"}, MaxPop, {NaN, Num(1), Num(2)}, Row)

InitRanker ==
    /\ remote = CHOOSE w \in [SEC : BaseSEC, EOBMF : BaseBMF, Form990 : Base990] : TRUE
    /\ cache = [k \in Keys |-> Absent]
    /\ fetches = [k \in Keys |-> 0]
    /\ run = NoRun
    /\ \E pop \in Populations, n \in 1..MaxPop :
          /\ n <= Len(pop.rows)
          /\ rk = [op |-> "input", pop |-> pop, n |-> n]

\* state_df.nlargest(n, key), src/Home.py 361
RankLargest ==
    /\ rk.op = "input"
    /\ rk' = [op |-> "nlargest", pop |-> rk.pop, n |-> rk.n,
              once |-> NLargest(rk.pop, rk.n, "key"),
              twice |-> NLargest(NLargest(rk.pop, rk.n, "key"), rk.n, "key")]
    /\ UNCHANGED <<remote, cache, fetches, run>>

\* state_df.nsmallest(n, key), src/Home.py 367
RankSmallest ==
    /\ rk.op = "input"
    /\ rk' = [op |-> "nsmallest", pop |-> rk.pop, n |-> rk.n,
              once |-> NSmallest(rk.pop, rk.n, "key"),
              twice |-> NSmallest(NSmallest(rk.pop, rk.n, "key"), rk.n, "key")]
    /\ UNCHANGED <<remote, cache, fetches, run>>

\* state_funding.sort_values(key, ascending=False).head(n), nonprofit page 109
RankSortHead ==
    /\ rk.op = "input"
    /\ \E first \in SortValuesDescending(rk.pop, "key") :
          \E second \in SortValuesDescending(HeadRows(first, rk.n), "key") :
              rk' = [op |-> "sort_values", pop |-> rk.pop, n |-> rk.n,
                     once |-> HeadRows(first, rk.n),
                     twice |-> HeadRows(second, rk.n)]
    /\ UNCHANGED <<remote, cache, fetches, run>>

NextRanker == RankLargest \/ RankSmallest \/ RankSortHead

SpecRanker == InitRanker /\ [][NextRanker]_vars

----------------------------------------------------------------------------
(* The claims *)

\* the last run was a corporate page whose load_data() returned
CorpLoaded == run.page \in {"A", "B"} /\ run.error # "LoadError"

\* the rows of the Dataset the last corporate run was handed
Dataset == cache[run.page].value.rows

\* the rows of the page's filtered frame as the run left it
View == run.frames[run.view].rows

\* the Dataset row a view row came from, by its label
Origin(r) == Dataset[r["index"][2] + 1]

\* C1: the Metric Filter output (line 121 / 299, before any narrowing) has
\* no row with a null metric, has every Dataset row with a non-null metric,
\* and each of its rows is a Dataset row, in the Dataset's order.
C1_MetricFilterExact ==
    CorpLoaded =>
        LET out == run.metric_filter.rows
            M == run.actor_metric
        IN  /\ \A i \in DOMAIN out : notna(out[i][M])
            /\ \A j \in DOMAIN Dataset :
                  notna(Dataset[j][M]) => \E i \in DOMAIN out : out[i] = Dataset[j]
            /\ \A i \in DOMAIN out : \E j \in DOMAIN Dataset : Dataset[j] = out[i]
            /\ Len(out) = Cardinality({j \in DOMAIN Dataset : notna(Dataset[j][M])})
            /\ \A i, k \in DOMAIN out :
                  i < k => \E j, l \in DOMAIN Dataset :
                              j < l /\ Dataset[j] = out[i] /\ Dataset[l] = out[k]

\* a run whose filter dropped the middle row of three and kept the other two
C1_Witness ==
    /\ CorpLoaded
    /\ Len(Dataset) = 3
    /\ isna(Dataset[2][run.actor_metric])
    /\ run.metric_filter.rows = <<Dataset[1], Dataset[3]>>

\* the Dataset rows the page's selections keep
Selected(r) ==
    /\ notna(r[run.actor_metric])
    /\ run.selected_state # "All" => r["State"] = Str(run.selected_state)
    /\ run.selected_sector # "All" => r["Business Sector"] = Str(run.selected_sector)

\* C2: in the view every Revenues cell that was exactly zero is null, every
\* other cell is the Dataset's, and the view has as many rows as the Dataset
\* has rows with a non-null metric in the selected state and sector.
C2_ZeroRevenueNulled ==
    CorpLoaded =>
        /\ Len(View) = Cardinality({j \in DOMAIN Dataset : Selected(Dataset[j])})
        /\ \A i \in DOMAIN View :
              /\ Selected(Origin(View[i]))
              /\ View[i]["Revenues"] = IF Origin(View[i])["Revenues"] = Num(0) THEN NaN
                                       ELSE Origin(View[i])["Revenues"]
              /\ \A c \in SECCols \ {"Revenues"} : View[i][c] = Origin(View[i])[c]

\* a view with a nulled zero, a kept revenue and a revenue that was null
C2_Witness ==
    /\ CorpLoaded
    /\ Len(View) = 3
    /\ \E i, j, k \in DOMAIN View :
          /\ Origin(View[i])["Revenues"] = Num(0) /\ View[i]["Revenues"] = NaN
          /\ Origin(View[j])["Revenues"] = Num(2) /\ View[j]["Revenues"] = Num(2)
          /\ Origin(View[k])["Revenues"] = NaN /\ View[k]["Revenues"] = NaN

\* the frames each page's loads returned are still what the store holds
LoadedFramesIntact ==
    /\ CorpLoaded => run.frames["df"] = cache[run.page].value
    /\ run.page = "N" => /\ run.frames["df_bmf"] = cache["EOBMF"].value
                         /\ run.frames["df_990"] = cache["Form990"].value

\* C3: no step of a page run changes the Dataset the loader returned, and
\* the Dataset stored for a key stays the value first stored for it.
C3_DatasetNeverMutated ==
    [][/\ \A k \in Keys : cache[k].present => cache'[k] = cache[k]
       /\ LoadedFramesIntact']_vars

\* runs that did change their own frames: a corporate view with a nulled
\* revenue over a Dataset that still has the zero, and a nonprofit run whose
\* coercion nulled a text cell the stored Form 990 frame still has
C3_Witness ==
    \/ /\ CorpLoaded
       /\ \E i \in DOMAIN View :
             View[i]["Revenues"] = NaN /\ Origin(View[i])["Revenues"] = Num(0)
       /\ \E j \in DOMAIN run.frames["df"].rows :
             run.frames["df"].rows[j]["Revenues"] = Num(0)
    \/ /\ run.page = "N" /\ run.error = ""
       /\ \E i \in DOMAIN run.frames["df_env_990"].rows :
             run.frames["df_env_990"].rows[i]["totassetsend"] = NaN
       /\ \E j \in DOMAIN cache["Form990"].value.rows :
             cache["Form990"].value.rows[j]["totassetsend"] = NotANumber

\* C4 as stated: at most one fetch per key over any sequence of runs
C4_AtMostOneFetchPerKey == \A k \in Keys : fetches[k] <= 1

\* C4, amended: once a load_data call for a key has returned (which stores
\* its value), no later call fetches for that key or changes its entry; an
\* entry exists only after a fetch for its own key, and a run touches only
\* the entries of the keys it loads.
C4_StoredKeyNeverRefetched ==
    [][/\ \A k \in Keys : cache[k].present =>
              fetches'[k] = fetches[k] /\ cache'[k] = cache[k]
       /\ \A k \in Keys : cache'[k].present => fetches'[k] >= 1
       /\ \A k \in Keys : fetches'[k] <= fetches[k] + 1
       /\ \A k \in Keys :
              (run'.page = "A" /\ k # "A") \/ (run'.page = "B" /\ k # "B")
              \/ (run'.page = "N" /\ k \in {"A", "B"})
                 => cache'[k] = cache[k] /\ fetches'[k] = fetches[k]]_vars

\* a run served from the store after an earlier run fetched
C4_Witness ==
    \E k \in Keys : k \in run.hits /\ cache[k].present /\ fetches[k] = 1

\* C5 as stated: a failed fetch is caught, a notice is shown, and the run
\* goes on to the end without raising, on every page
C5_LoadFailureContinues ==
    run.fetch_failed # {} => run.error = "" /\ run.notices # {}

\* a sum of the column over the rows at the positions S, one by one
RECURSIVE SumAt(_, _, _)
SumAt(rows, S, col) ==
    IF S = {} THEN Num(0)
    ELSE LET i == CHOOSE x \in S : TRUE
         IN  Add(rows[i][col], SumAt(rows, S \ {i}, col))

\* groups g of the view rows V on dimension C: one group per non-null key,
\* each counting and summing exactly its own rows
GroupsPartition(V, g, C, M) ==
    LET keys == {V[i][C] : i \in DOMAIN V} \ {NaN}
        Members(k) == {i \in DOMAIN V : V[i][C] = k}
    IN  /\ Len(g) = Cardinality(keys)
        /\ \A k \in keys : Cardinality({i \in DOMAIN g : g[i][C] = k}) = 1
        /\ \A i \in DOMAIN g :
              /\ g[i][C] \in keys
              /\ g[i]["Count"] = Num(Cardinality(Members(g[i][C])))
              /\ g[i][M] = SumAt(V, Members(g[i][C]), M)
        /\ SumAt(g, DOMAIN g, "Count")
              = Num(Cardinality({i \in DOMAIN V : notna(V[i][C])}))

\* C6: state_df and sector_df hold exactly one group per distinct non-null
\* State / Business Sector of the view; a row with a null key is in no
\* group, every other row in exactly one; the Counts add up to the number of
\* rows with a key, and each group's sum is the sum over its rows.
C6_GroupsPartitionView ==
    CorpLoaded =>
        /\ "state_df" \in DOMAIN run.frames =>
              GroupsPartition(View, run.frames["state_df"].rows, "State",
                              run.actor_metric)
        /\ "sector_df" \in DOMAIN run.frames =>
              GroupsPartition(View, run.frames["sector_df"].rows, "Business Sector",
                              run.actor_metric)

\* a view with a row without a state, a state of two rows, and sector
\* groups built as well
C6_Witness ==
    /\ CorpLoaded
    /\ "sector_df" \in DOMAIN run.frames
    /\ \E i \in DOMAIN View : isna(View[i]["State"])
    /\ \E g \in Range(run.frames["state_df"].rows) :
          g["Count"] = Num(2) /\ g[run.actor_metric] = Num(3)
    /\ \E i \in DOMAIN View : isna(View[i]["Business Sector"])

ZeroSum(rows, col) == Sum([i \in DOMAIN rows |-> rows[i][col]]) = Num(0)

\* C7 as stated: a ranking asked for more items than there are returns them
\* all; an empty population gives an empty selection; an empty or zero-sum
\* population gives a share of 0; and the insights text is built without a
\* runtime failure.
C7_RankingEdgeCasesSafe ==
    CorpLoaded =>
        /\ run.error = ""
        /\ run.geo.rendered =>
              LET pop == run.frames["state_df"].rows
              IN  /\ Len(pop) <= TopN =>
                        Len(run.geo.top) = Len(pop) /\ Len(run.geo.bottom) = Len(pop)
                  /\ pop = <<>> \/ ZeroSum(pop, run.actor_metric) =>
                        run.geo.topShare = Num(0) /\ run.geo.bottomShare = Num(0)
        /\ run.sector.rendered =>
              LET pop == run.frames["sector_df"].rows
              IN  /\ Len(pop) <= TopN =>
                        Len(run.sector.top) = Len(pop) /\ Len(run.sector.bottom) = Len(pop)
                  /\ pop = <<>> \/ ZeroSum(pop, run.actor_metric) =>
                        run.sector.topShare = Num(0) /\ run.sector.bottomShare = Num(0)
        /\ run.company.rendered =>
              LET col == MethodCol(run.actor_metric, run.method)
              IN  /\ Len(View) <= TopN => Len(run.company.top) = Len(View)
                  /\ View = <<>> \/ ZeroSum(View, col) => run.company.topShare = Num(0)

NonNegative(rows, col) ==
    \A i \in DOMAIN rows : IsNum(rows[i][col]) /\ rows[i][col][2] >= 0

Percentage(x) == IsNum(x) /\ ~Lt(x, Num(0)) /\ ~Lt(Num(100), x)

\* C8 as stated: over a non-empty population with non-negative keys every
\* reported share is within 0..100 and the top share is at least the bottom
\* share.
C8_SharesArePercentages ==
    CorpLoaded =>
        /\ (/\ run.geo.rendered
            /\ run.frames["state_df"].rows # <<>>
            /\ NonNegative(run.frames["state_df"].rows, run.actor_metric))
              => /\ Percentage(run.geo.topShare)
                 /\ Percentage(run.geo.bottomShare)
                 /\ ~Lt(run.geo.topShare, run.geo.bottomShare)
        /\ (/\ run.sector.rendered
            /\ run.frames["sector_df"].rows # <<>>
            /\ NonNegative(run.frames["sector_df"].rows, run.actor_metric))
              => /\ Percentage(run.sector.topShare)
                 /\ Percentage(run.sector.bottomShare)
                 /\ ~Lt(run.sector.topShare, run.sector.bottomShare)
        /\ (/\ run.company.rendered
            /\ View # <<>>
            /\ NonNegative(View, MethodCol(run.actor_metric, run.method)))
              => Percentage(run.company.topShare)

\* C9 as stated: ranking the result of a ranking gives the same items in the
\* same order, equal keys in input order both times, for every ranker.
C9_RankerIdempotent ==
    rk.op \in {"nlargest", "nsmallest", "sort_values"} =>
        /\ rk.twice = rk.once
        /\ \A i, j \in DOMAIN rk.once.rows :
              (i < j /\ rk.once.rows[i]["key"] = rk.once.rows[j]["key"])
                 => rk.once.rows[i]["index"][2] < rk.once.rows[j]["index"][2]

\* C10 as stated: no headline mean or median is NaN; over an empty view or
\* an entirely null column it is 0, and the count of an empty view is 0.
C10_HeadlineNeverNaN ==
    /\ CorpLoaded =>
          /\ IsNum(run.stats.MedianRevenues)
          /\ (\A i \in DOMAIN View : isna(View[i]["Revenues"]))
                => run.stats.MedianRevenues = Num(0)
          /\ View = <<>> => run.stats.Companies = 0
    /\ (run.page = "N" /\ run.error = "") =>
          /\ IsNum(run.stats.AverageAssets)
          /\ IsNum(run.stats.AverageRevenue)
          /\ IsNum(run.stats.AverageExpenses)
          /\ run.frames["df_filtered"].rows = <<>> =>
                /\ run.stats.TotalNonprofits = 0
                /\ run.stats.AverageAssets = Num(0)
                /\ run.stats.AverageRevenue = Num(0)
                /\ run.stats.AverageExpenses = Num(0)

\* the last run was a nonprofit page that reached its end
NonprofitDone == run.page = "N" /\ run.error = ""

\* the Form 990 rows with these labels, in this order
Labels(rows) == [i \in DOMAIN rows |-> rows[i]["index"]]

\* C11: of the environmental Form 990 records, Small holds exactly those
\* with assets < 1,000,000, Medium those with 1,000,000 <= assets <=
\* 10,000,000, Large those with assets > 10,000,000; so a record with assets
\* falls in exactly one bucket and one without in none; the page's filter
\* gives the bucket selected, and every record under "All".
C11_SizeBucketsExact ==
    NonprofitDone =>
        LET recs == run.frames["df_env_990"].rows
            InSmall(r) == LET a == r["totassetsend"]
                          IN  a[1] = "num" /\ a[2] < 1000000 * a[3]
            InMedium(r) == LET a == r["totassetsend"]
                           IN  /\ a[1] = "num"
                               /\ a[2] >= 1000000 * a[3]
                               /\ a[2] <= 10000000 * a[3]
            InLarge(r) == LET a == r["totassetsend"]
                          IN  a[1] = "num" /\ a[2] > 10000000 * a[3]
            Want(z) == IF z = "Small (<$1M)" THEN SelectSeq(recs, InSmall)
                       ELSE IF z = "Medium ($1M-$10M)" THEN SelectSeq(recs, InMedium)
                       ELSE IF z = "Large (>$10M)" THEN SelectSeq(recs, InLarge)
                       ELSE recs
        IN  /\ \A z \in Sizes \ {"All"} : run.buckets[z].rows = Want(z)
            /\ run.size_filtered.rows = Want(run.nonprofit_size)
            /\ \A i \in DOMAIN recs :
                  Cardinality({z \in Sizes \ {"All"} :
                                  recs[i] \in Range(run.buckets[z].rows)})
                     = IF isna(recs[i]["totassetsend"]) THEN 0 ELSE 1

\* Medium selected over records at both thresholds and one without assets:
\* the two are kept, the third is not
C11_Witness ==
    /\ NonprofitDone
    /\ run.nonprofit_size = "Medium ($1M-$10M)"
    /\ Len(run.size_filtered.rows) = 2
    /\ \E r \in Range(run.size_filtered.rows) : r["totassetsend"] = Num(1000000)
    /\ \E r \in Range(run.size_filtered.rows) : r["totassetsend"] = Num(10000000)
    /\ \E r \in Range(run.frames["df_env_990"].rows) : isna(r["totassetsend"])

\* a master-file NTEE code that is there and starts with C30 .. C60
IsEnvCode(c) ==
    /\ c[1] = "str"
    /\ Len(c[2]) >= 3
    /\ \E n \in 30..60 : SubSeq(c[2], 1, 3) = <<"C">> \o Digits(n)

\* the published Form 990 row has the EIN of an environmental organization
\* of the published master file
EnvReturn(r) ==
    /\ notna(r["ein"])
    /\ \E b \in Range(remote["EOBMF"].rows) : IsEnvCode(b["NTEE_CD"]) /\ b["EIN"] = r["ein"]

\* C12 as stated: df_env_990 holds exactly the Form 990 rows whose EIN is
\* the EIN of a master-file row with an environmental NTEE code, each once,
\* in file order, with the Form 990 columns only.
C12_EnvFilterIsMembership ==
    NonprofitDone =>
        /\ Labels(run.frames["df_env_990"].rows)
              = Labels(SelectSeq(remote["Form990"].rows, EnvReturn))
        /\ run.frames["df_env_990"].cols = F990Cols

\* C13 as stated: with states selected, the narrowed view holds exactly the
\* rows of the size-filtered view whose EIN, compared as the environmental
\* cross-reference compares it (both sides as text), is the EIN of an
\* environmental master-file organization in a selected state; so it is not
\* empty when such a row is in the size bucket.
C13_StateNarrowingByEin ==
    (NonprofitDone /\ run.state_filter # {}) =>
        LET bmf == run.frames["df_bmf"]
            Located(b) == /\ IsEnvCode(b["NTEE_CD"])
                          /\ notna(b["STATE"])
                          /\ b["STATE"][2] \in run.state_filter
            eins == {AsStr(DType(Col(bmf, "EIN")), b["EIN"]) :
                        b \in {x \in Range(bmf.rows) : Located(x)}}
            Wanted(r) ==
                AsStr(DType(Col(run.frames["df_990"], "ein")), r["ein"]) \in eins
        IN  /\ Labels(run.frames["df_filtered"].rows)
                  = Labels(SelectSeq(run.size_filtered.rows, Wanted))
            /\ (\E i \in DOMAIN run.size_filtered.rows : Wanted(run.size_filtered.rows[i]))
                  => run.frames["df_filtered"].rows # <<>>

\* the keys a run of the page loads
LoadsOf(page) ==
    IF page = "N" THEN {"EOBMF", "Form990"}
    ELSE IF page \in {"A", "B"} THEN {page}
    ELSE {}

\* C14 as stated: the run after a run whose fetch for a key failed fetches
\* for that key again, and no run is ever handed, from the store, what a
\* failed fetch left there.
C14_FailedFetchRefetched ==
    [][/\ \A k \in run.fetch_failed \cap LoadsOf(run'.page) :
              k \notin run'.hits /\ fetches'[k] = fetches[k] + 1
       /\ \A k \in run'.hits : cache'[k].messages = {}]_vars

====
